---- MODULE Spec2Model ----
(***************************************************************************)
(* Debugger-configuration resolution of src/src/debugger.ts:               *)
(* getDebugConfigurationFromCache, its configuration builders              *)
(* (createGDBDebugConfiguration, createLLDBDebugConfiguration,             *)
(* createMSVCDebugConfiguration), searchForCompilerPathInCache and         *)
(* checkDebugger.  Paths are TLA+ strings; the two regular expressions and *)
(* the `path` helpers are computed character by character.                 *)
(***************************************************************************)
EXTENDS Integers, Sequences, FiniteSets, TLC

(***************************************************************************)
(* Strings                                                                 *)
(***************************************************************************)

\* The value of an absent optional (null / undefined).
NULL == "<null>"

Ch(s, i) == SubSeq(s, i, i)

UpperLetters == "ABCDEFGHIJKLMNOPQRSTUVWXYZ"
LowerLetters == "abcdefghijklmnopqrstuvwxyz"

UpperSet == {Ch(UpperLetters, k) : k \in 1..26}
LowerSet == {Ch(LowerLetters, k) : k \in 1..26}
LowerOf ==
    [c \in UpperSet |-> Ch(LowerLetters, CHOOSE k \in 1..26 : Ch(UpperLetters, k) = c)]

\* Case folding of one character, as the regular expressions' i flag does.
Lower(c) == IF c \in UpperSet THEN LowerOf[c] ELSE c

IsLetter(c) == c \in UpperSet \/ c \in LowerSet

\* The lower-case literal lit occurs in s at position i, ignoring case.
MatchesAtNoCase(s, i, lit) ==
    /\ i >= 1
    /\ i + Len(lit) - 1 <= Len(s)
    /\ \A k \in 1..Len(lit) : Lower(Ch(s, i + k - 1)) = Ch(lit, k)

\* String.prototype.endsWith (case-sensitive).
EndsWith(s, suffix) ==
    /\ Len(suffix) <= Len(s)
    /\ SubSeq(s, Len(s) - Len(suffix) + 1, Len(s)) = suffix

\* s.search(new RegExp(lit)) !== -1 for a literal without metacharacters.
Contains(s, lit) ==
    \E i \in 1..(Len(s) - Len(lit) + 1) : SubSeq(s, i, i + Len(lit) - 1) = lit

\* The number of '+' characters at position j of s, at most cap.
RECURSIVE PlusRun(_, _, _)
PlusRun(s, j, cap) ==
    IF cap = 0 \/ j > Len(s) \/ Ch(s, j) # "+" THEN 0
    ELSE 1 + PlusRun(s, j + 1, cap - 1)

(***************************************************************************)
(* clang_compiler_regex = /(clang[\+]{0,2})+(?!-cl)/gi                     *)
(*                                                                         *)
(* ClangChain: the greedy match of (clang[\+]{0,2})+ at i, `clang` known   *)
(* to occur there: the position after it, the start of its last            *)
(* repetition and the number of '+' that repetition took.                  *)
(***************************************************************************)
RECURSIVE ClangChain(_, _)
ClangChain(s, i) ==
    LET plus == PlusRun(s, i + 5, 2)
        next == i + 5 + plus
    IN  IF MatchesAtNoCase(s, next, "clang")
        THEN ClangChain(s, next)
        ELSE [end |-> next, lastStart |-> i, lastPlus |-> plus]

\* Length of the match of clang_compiler_regex starting at i, 0 when none.
\* When the greedy match is followed by "-cl" the engine backtracks: it
\* gives one '+' back (the lookahead then sees '+'), or, the last repetition
\* having no '+', drops that repetition (the lookahead then sees "clang").
ClangMatchLen(s, i) ==
    IF ~MatchesAtNoCase(s, i, "clang") THEN 0
    ELSE LET c == ClangChain(s, i)
         IN  IF ~MatchesAtNoCase(s, c.end, "-cl") THEN c.end - i
             ELSE IF c.lastPlus > 0 THEN c.end - 1 - i
             ELSE IF c.lastStart > i THEN c.lastStart - i
             ELSE 0

\* compiler_path.replace(clang_compiler_regex, repl), scanning from i.
RECURSIVE ReplaceClangFrom(_, _, _)
ReplaceClangFrom(s, i, repl) ==
    IF i > Len(s) THEN ""
    ELSE LET n == ClangMatchLen(s, i)
         IN  IF n > 0 THEN repl \o ReplaceClangFrom(s, i + n, repl)
             ELSE Ch(s, i) \o ReplaceClangFrom(s, i + 1, repl)

ReplaceClang(s, repl) == ReplaceClangFrom(s, 1, repl)

(***************************************************************************)
(* gcc_compiler_regex = /([cg]\+\+|g?cc)(?=[^\/\\]*$)/gi                   *)
(***************************************************************************)

\* The lookahead (?=[^\/\\]*$) at position j: no separator from j on.
NoSeparatorFrom(s, j) ==
    \A k \in j..Len(s) : Ch(s, k) \notin {"/", "\\"}

\* Length of the match of gcc_compiler_regex starting at i, 0 when none:
\* the alternatives in the order the engine tries them.
GccMatchLen(s, i) ==
    IF /\ i + 2 <= Len(s)
       /\ Lower(Ch(s, i)) \in {"c", "g"}
       /\ SubSeq(s, i + 1, i + 2) = "++"
       /\ NoSeparatorFrom(s, i + 3)
    THEN 3
    ELSE IF MatchesAtNoCase(s, i, "gcc") /\ NoSeparatorFrom(s, i + 3) THEN 3
    ELSE IF MatchesAtNoCase(s, i, "cc") /\ NoSeparatorFrom(s, i + 2) THEN 2
    ELSE 0

\* compiler_path.replace(gcc_compiler_regex, repl), scanning from i.
RECURSIVE ReplaceGccFrom(_, _, _)
ReplaceGccFrom(s, i, repl) ==
    IF i > Len(s) THEN ""
    ELSE LET n == GccMatchLen(s, i)
         IN  IF n > 0 THEN repl \o ReplaceGccFrom(s, i + n, repl)
             ELSE Ch(s, i) \o ReplaceGccFrom(s, i + 1, repl)

ReplaceGcc(s, repl) == ReplaceGccFrom(s, 1, repl)

(***************************************************************************)
(* The `path` module, for the host named by process.platform.  Paths carry *)
(* no ".", ".." or empty segments and no trailing separator, so that       *)
(* normalisation only rewrites separators (on win32).                      *)
(***************************************************************************)
IsSep(c, win) == c = "/" \/ (win /\ c = "\\")

\* Mutant: every non-empty path is taken for absolute.
IsAbsolute_NonEmpty(p, win) == Len(p) > 0

\* path.isAbsolute
IsAbsolute(p, win) ==
    /\ Len(p) > 0
    /\ \/ IsSep(Ch(p, 1), win)
       \/ /\ win
          /\ Len(p) >= 3
          /\ IsLetter(Ch(p, 1))
          /\ Ch(p, 2) = ":"
          /\ IsSep(Ch(p, 3), win)

\* Index of the last separator of p, 0 when there is none.
LastSep(p, win) ==
    LET S == {k \in 1..Len(p) : IsSep(Ch(p, k), win)}
    IN  IF S = {} THEN 0 ELSE CHOOSE k \in S : \A j \in S : j <= k

\* path.dirname
Dirname(p, win) ==
    LET k == LastSep(p, win)
    IN  IF k = 0 THEN "."
        ELSE IF k = 1 THEN Ch(p, 1)
        ELSE IF win /\ k = 3 /\ Ch(p, 2) = ":" THEN SubSeq(p, 1, 3)
        ELSE SubSeq(p, 1, k - 1)

\* path.normalize on win32 of a path without dot segments: '/' becomes '\'.
RECURSIVE BackSlashes(_, _)
BackSlashes(p, i) ==
    IF i > Len(p) THEN ""
    ELSE (IF Ch(p, i) = "/" THEN "\\" ELSE Ch(p, i)) \o BackSlashes(p, i + 1)

\* path.join(dir, name)
Join(dir, name, win) ==
    LET sep == IF win THEN "\\" ELSE "/"
        d   == IF win THEN BackSlashes(dir, 1) ELSE dir
    IN  IF d = "." THEN name
        ELSE IF IsSep(Ch(d, Len(d)), win) THEN d \o name
        ELSE d \o sep \o name

(***************************************************************************)
(* Inputs and environment                                                  *)
(***************************************************************************)

\* Values of the cache entries; NULL stands for an entry the cache lacks.
Linkers == {NULL, "/b/ld", "C:/m/link.exe", "/b/ld.lld.exe"}
CxxCompilers == {NULL, "/b/clang++", "/b/clang", "/b/g++", "C:/m/cl.exe", "C:/m/g++.exe"}
CCompilers == {NULL, "gcc"}
CudaCompilers == {NULL, "/b/nvcc"}

\* Every subset of the three compiler entries occurs; the C++ entry takes
\* all its values when it is the only one, two of them beside other entries.
Caches ==
    {c \in [CMAKE_LINKER : Linkers, CMAKE_CXX_COMPILER : CxxCompilers,
            CMAKE_C_COMPILER : CCompilers, CMAKE_CUDA_COMPILER : CudaCompilers] :
        (c.CMAKE_C_COMPILER # NULL \/ c.CMAKE_CUDA_COMPILER # NULL)
            => c.CMAKE_CXX_COMPILER \in {NULL, "/b/g++"}}

Targets == {[name |-> "app", path |-> "/w/app"]}
Platforms == {"darwin", "linux"}
ModeOverrides == {NULL, "gdb", "lldb"}
\* No override, two relative ones (one of them the bare command name `gdb`),
\* an absolute one (which may exist on disk or not).
PathOverrides == {NULL, "dbg", "gdb", "/o/dbg"}
\* process.platform of the extension host.
HostPlatforms == {"linux", "win32"}
\* extensionPath of ms-vscode.cpptools, NULL when it is not installed.
CppToolsPaths == {NULL, "/x"}
\* The extension registry before getExtension was first asked.
UNREAD == "<unread>"

\* Number of calls of getDebugConfigurationFromCache in one behaviour.
MaxCalls == 2

VARIABLES
    cache, target, platform, modeOverride, debuggerPathOverride, \* arguments
    hostPlatform, cpptools, stableEnv, fsMemo, probeMemo,       \* environment
    pc, debugger_name, compiler_path, mi_debugger_path,
    cpptoolsDebuggerPath, debuggerPath,                         \* locals
    site, ret, inflight,                                        \* checkDebugger
    probes, fsChecks, warnings, result, history                 \* observation

args == <<cache, target, platform, modeOverride, debuggerPathOverride>>
host == <<hostPlatform, cpptools, stableEnv>>
locals == <<debugger_name, compiler_path, mi_debugger_path,
            cpptoolsDebuggerPath, debuggerPath>>
vars == <<args, host, fsMemo, probeMemo, pc, locals, site, ret, inflight,
          probes, fsChecks, warnings, result, history>>

win == hostPlatform = "win32"

\* cache.get(key): the entry's value, NULL when the cache has no such entry.
CacheGet(c, key) == c[key]

(***************************************************************************)
(* Configuration builders' results                                         *)
(***************************************************************************)
\* createMSVCDebugConfiguration
createMSVCDebugConfiguration(t) ==
    [type |-> "cppvsdbg", name |-> "Debug " \o t.name, request |-> "launch",
     cwd |-> Dirname(t.path, win), args |-> <<>>, program |-> t.path]

\* The object createGDBDebugConfiguration returns once debuggerPath passed.
GDBConfig(path, t) ==
    [type |-> "cppdbg", name |-> "Debug " \o t.name, request |-> "launch",
     cwd |-> Dirname(t.path, win), args |-> <<>>, MIMode |-> "gdb",
     miDebuggerPath |-> path,
     setupCommands |-> <<[description |-> "enable.pretty.printing",
                          text |-> "-enable-pretty-printing",
                          ignoreFailures |-> TRUE]>>,
     program |-> t.path]

\* Mutant: the LLDB object is a copy of the GDB one with MIMode changed, the
\* pretty-printing command kept.
LLDBConfig_WithSetup(path, t) ==
    [type |-> "cppdbg", name |-> "Debug " \o t.name, request |-> "launch",
     cwd |-> Dirname(t.path, win), args |-> <<>>, MIMode |-> "lldb",
     miDebuggerPath |-> path,
     setupCommands |-> <<[description |-> "enable.pretty.printing",
                          text |-> "-enable-pretty-printing",
                          ignoreFailures |-> TRUE]>>,
     program |-> t.path]

\* The object createLLDBDebugConfiguration returns once debuggerPath passed.
LLDBConfig(path, t) ==
    [type |-> "cppdbg", name |-> "Debug " \o t.name, request |-> "launch",
     cwd |-> Dirname(t.path, win), args |-> <<>>, MIMode |-> "lldb",
     miDebuggerPath |-> path, program |-> t.path]

\* The three ways a call ends, and the value while it runs.
Running == [kind |-> "running"]
Returned(cfg) == [kind |-> "config", config |-> cfg]
ReturnedNull == [kind |-> "null"]
Thrown(key, arg) == [kind |-> "error", error |-> key, arg |-> arg]

(***************************************************************************)
(* Pure parts of getDebugConfigurationFromCache                            *)
(***************************************************************************)

\* Mutant: only link.exe is taken for an MSVC linker.
IsMsvcLinker_LinkOnly(linker) == EndsWith(linker, "link.exe")

\* is_msvc_linker
IsMsvcLinker(linker) ==
    EndsWith(linker, "link.exe") \/ EndsWith(linker, "ld.lld.exe")

\* Mutant: the compiler path is compared with 'cl.exe' as a whole.
IsMsvcCompiler_Exact(compiler) == compiler = "cl.exe"

\* compiler_path.endsWith('cl.exe')
IsMsvcCompiler(compiler) == EndsWith(compiler, "cl.exe")

\* Mutant: a cache without compiler entry gives null instead of the error.
NoCompilerFound_Null == ReturnedNull

\* The end of a call whose cache holds no compiler entry.
NoCompilerFound == Thrown("no.compiler.found.in.cache", NULL)

\* searchForCompilerPathInCache: the languages in order, first entry found.
RECURSIVE SearchLanguages(_, _)
SearchLanguages(c, languages) ==
    IF languages = <<>> THEN NULL
    ELSE LET entry == CacheGet(c, "CMAKE_" \o Head(languages) \o "_COMPILER")
         IN  IF entry = NULL THEN SearchLanguages(c, Tail(languages))
             ELSE entry

\* Mutant: the C entry is looked up before the C++ entry.
searchForCompilerPathInCache_CFirst(c) == SearchLanguages(c, <<"C", "CXX", "CUDA">>)

searchForCompilerPathInCache(c) == SearchLanguages(c, <<"CXX", "C", "CUDA">>)

\* Mutant: the platform default is the wrong way round.
DebuggerName_DarwinGdb(mode, plat) ==
    IF mode # NULL THEN mode
    ELSE IF plat = "darwin" THEN "gdb" ELSE "lldb"

\* Mutant: the preferred family ignores modeOverride.
DebuggerName_PlatformOnly(mode, plat) ==
    IF plat = "darwin" THEN "lldb" ELSE "gdb"

\* debugger_name = modeOverride || (platform === 'darwin' ? 'lldb' : 'gdb')
DebuggerName(mode, plat) ==
    IF mode # NULL THEN mode
    ELSE IF plat = "darwin" THEN "lldb" ELSE "gdb"

\* The guards of the candidate steps 1, 2 and 3.
AdmitsLLDBMI(mode, path) == mode # "gdb" /\ Contains(path, "lldb-mi")

\* Mutant: the search of step 2 keeps state between calls (as a shared
\* regular expression with the g flag does) and fails on a repeated call.
AdmitsGDB_Stateful(mode, path) ==
    mode # "lldb" /\ Contains(path, "gdb") /\ history = <<>>

AdmitsGDB(mode, path) == mode # "lldb" /\ Contains(path, "gdb")

\* Mutant: step 3 forgets the mode override.
AdmitsLLDB_AnyMode(mode, path) == Contains(path, "lldb")

AdmitsLLDB(mode, path) == mode # "gdb" /\ Contains(path, "lldb")

\* cpptoolsDebuggerPath
CppToolsDebuggerPath(extensionPath) ==
    IF extensionPath = NULL THEN NULL
    ELSE Join(Join(Join(Join(extensionPath, "debugAdapters", win),
                        "lldb-mi", win), "bin", win), "lldb-mi", win)

\* gdb_debugger_path of the generic fallback; exists is the answer of
\* fs.exists for the path first derived (asked only when it is absolute).
GenericFallbackDerived(compiler, miMode) == ReplaceGcc(compiler, miMode)

GenericFallbackPath(compiler, miMode, exists) ==
    LET derived == GenericFallbackDerived(compiler, miMode)
    IN  IF IsAbsolute(derived, win) /\ ~exists
        THEN LET joined == Join(Dirname(compiler, win), miMode, win)
             IN  IF win THEN joined \o ".exe" ELSE joined
        ELSE derived

(***************************************************************************)
(* Environment: the filesystem and the debugger binaries.  Answers are     *)
(* chosen when first asked; a stable environment repeats them.             *)
(***************************************************************************)
ExistsAnswers(p) ==
    IF stableEnv /\ p \in DOMAIN fsMemo THEN {fsMemo[p]} ELSE BOOLEAN

\* vscode.extensions.getExtension('ms-vscode.cpptools')
ExtensionAnswers ==
    IF stableEnv /\ cpptools # UNREAD THEN {cpptools} ELSE CppToolsPaths

\* Exit codes of `<path> --version`.
ExitCodes(p) ==
    IF stableEnv /\ p \in DOMAIN probeMemo THEN {probeMemo[p]} ELSE {0, 1}

Remember(memo, p, v) ==
    IF stableEnv /\ p \notin DOMAIN memo THEN memo @@ (p :> v) ELSE memo

Init ==
    /\ cache \in Caches
    /\ target \in Targets
    /\ platform \in Platforms
    /\ modeOverride \in ModeOverrides
    /\ debuggerPathOverride \in PathOverrides
    /\ hostPlatform \in HostPlatforms
    /\ cpptools = UNREAD
    /\ stableEnv \in BOOLEAN
    /\ fsMemo = <<>>
    /\ probeMemo = <<>>
    /\ pc = "idle"
    /\ debugger_name = NULL
    /\ compiler_path = NULL
    /\ mi_debugger_path = NULL
    /\ cpptoolsDebuggerPath = NULL
    /\ debuggerPath = NULL
    /\ site = NULL
    /\ ret = FALSE
    /\ inflight = {}
    /\ probes = <<>>
    /\ fsChecks = <<>>
    /\ warnings = <<>>
    /\ result = Running
    /\ history = <<>>

(***************************************************************************)
(* Steps shared by the actions                                             *)
(***************************************************************************)

\* checkDebugger(path) is called and awaited; the caller resumes at `at`.
StartProbe(path, at) ==
    /\ inflight' = inflight \cup {path}
    /\ site' = at
    /\ pc' = "checkDebugger"

NoProbe == UNCHANGED <<site, inflight>>

\* return description.createConfig(path, target) and the two direct calls:
\* the builder starts by probing the path it was given.
CreateConfig(family, path) ==
    /\ debuggerPath' = path
    /\ StartProbe(path, IF family = "gdb" THEN "createGDB" ELSE "createLLDB")

Finish(r) ==
    /\ result' = r
    /\ pc' = "done"

Warn(key) == warnings' = Append(warnings, key)

(***************************************************************************)
(* Actions                                                                 *)
(***************************************************************************)

\* The caller invokes getDebugConfigurationFromCache: a first time, or again
\* with the same arguments, the debuggerPathOverride kept or left out.  No
\* state of the resolver outlives a call, so a repeated call differs from a
\* first one only by what the environment remembers: calls are repeated in a
\* stable environment only.
Call ==
    /\ pc \in {"idle", "done"}
    /\ pc = "done" => stableEnv
    /\ Len(history) + (IF pc = "done" THEN 1 ELSE 0) < MaxCalls
    /\ \E o \in {debuggerPathOverride, NULL} :
          debuggerPathOverride' = o
    /\ history' = IF pc = "done"
                  THEN Append(history, [debuggerPathOverride |-> debuggerPathOverride,
                                        result |-> result,
                                        probes |-> probes])
                  ELSE history
    /\ pc' = "ClassifyLinker"
    /\ debugger_name' = NULL
    /\ compiler_path' = NULL
    /\ mi_debugger_path' = NULL
    /\ cpptoolsDebuggerPath' = NULL
    /\ debuggerPath' = NULL
    /\ site' = NULL
    /\ ret' = FALSE
    /\ inflight' = {}
    /\ probes' = <<>>
    /\ fsChecks' = <<>>
    /\ warnings' = <<>>
    /\ result' = Running
    /\ UNCHANGED <<cache, target, platform, modeOverride, host, fsMemo, probeMemo>>

\* Lines 159-166: an MSVC linker ends the call with the MSVC configuration.
ClassifyLinker ==
    /\ pc = "ClassifyLinker"
    /\ LET entry == CacheGet(cache, "CMAKE_LINKER")
       IN  IF entry # NULL /\ IsMsvcLinker(entry)
           THEN Finish(Returned(createMSVCDebugConfiguration(target)))
           ELSE /\ pc' = "ResolveOverride"
                /\ UNCHANGED result
    /\ UNCHANGED <<args, host, fsMemo, probeMemo, locals, site, ret, inflight,
                   probes, fsChecks, warnings, history>>

\* Mutant: the override is only asked to exist on disk, not to be absolute.
ResolveOverride_ExistsOnly ==
    /\ pc = "ResolveOverride"
    /\ debugger_name' = DebuggerName(modeOverride, platform)
    /\ IF debuggerPathOverride \notin {NULL, ""}
       THEN IF TRUE
            THEN \E exists \in ExistsAnswers(debuggerPathOverride) :
                    /\ fsMemo' = Remember(fsMemo, debuggerPathOverride, exists)
                    /\ fsChecks' = Append(fsChecks, [path |-> debuggerPathOverride,
                                                     exists |-> exists,
                                                     at |-> "override"])
                    /\ IF exists
                       THEN /\ CreateConfig(debugger_name', debuggerPathOverride)
                            /\ UNCHANGED warnings
                       ELSE /\ Warn("invalid.miDebuggerPath.override")
                            /\ pc' = "ResolveCompiler"
                            /\ NoProbe
                            /\ UNCHANGED debuggerPath
            ELSE /\ Warn("invalid.miDebuggerPath.override")
                 /\ pc' = "ResolveCompiler"
                 /\ NoProbe
                 /\ UNCHANGED <<debuggerPath, fsMemo, fsChecks>>
       ELSE /\ pc' = "ResolveCompiler"
            /\ NoProbe
            /\ UNCHANGED <<debuggerPath, fsMemo, fsChecks, warnings>>
    /\ UNCHANGED <<args, host, probeMemo, compiler_path, mi_debugger_path,
                   cpptoolsDebuggerPath, ret, probes, result, history>>

\* Lines 168-178: the preferred family, and the debuggerPathOverride.
ResolveOverride ==
    /\ pc = "ResolveOverride"
    /\ debugger_name' = DebuggerName(modeOverride, platform)
    /\ IF debuggerPathOverride \notin {NULL, ""}
       THEN IF IsAbsolute(debuggerPathOverride, win)
            THEN \E exists \in ExistsAnswers(debuggerPathOverride) :
                    /\ fsMemo' = Remember(fsMemo, debuggerPathOverride, exists)
                    /\ fsChecks' = Append(fsChecks, [path |-> debuggerPathOverride,
                                                     exists |-> exists,
                                                     at |-> "override"])
                    /\ IF exists
                       THEN /\ CreateConfig(debugger_name', debuggerPathOverride)
                            /\ UNCHANGED warnings
                       ELSE /\ Warn("invalid.miDebuggerPath.override")
                            /\ pc' = "ResolveCompiler"
                            /\ NoProbe
                            /\ UNCHANGED debuggerPath
            ELSE /\ Warn("invalid.miDebuggerPath.override")
                 /\ pc' = "ResolveCompiler"
                 /\ NoProbe
                 /\ UNCHANGED <<debuggerPath, fsMemo, fsChecks>>
       ELSE /\ pc' = "ResolveCompiler"
            /\ NoProbe
            /\ UNCHANGED <<debuggerPath, fsMemo, fsChecks, warnings>>
    /\ UNCHANGED <<args, host, probeMemo, compiler_path, mi_debugger_path,
                   cpptoolsDebuggerPath, ret, probes, result, history>>

\* Lines 180-187: the compiler path; none is fatal, cl.exe is MSVC.
ResolveCompiler ==
    /\ pc = "ResolveCompiler"
    /\ compiler_path' = searchForCompilerPathInCache(cache)
    /\ IF compiler_path' = NULL
       THEN Finish(NoCompilerFound)
       ELSE IF IsMsvcCompiler(compiler_path')
       THEN Finish(Returned(createMSVCDebugConfiguration(target)))
       ELSE /\ pc' = "LookForLLDBMI"
            /\ UNCHANGED result
    /\ UNCHANGED <<args, host, fsMemo, probeMemo, debugger_name, mi_debugger_path,
                   cpptoolsDebuggerPath, debuggerPath, site, ret, inflight,
                   probes, fsChecks, warnings, history>>

\* Mutant: the probes of 1a and 1b are started together, neither awaited
\* before the other starts.
LookForLLDBMI_Parallel ==
    /\ pc = "LookForLLDBMI"
    /\ mi_debugger_path' = ReplaceClang(compiler_path, "lldb-mi")
    /\ IF AdmitsLLDBMI(modeOverride, mi_debugger_path')
       THEN /\ \E ext \in ExtensionAnswers :
                  /\ cpptools' = IF stableEnv THEN ext ELSE cpptools
                  /\ cpptoolsDebuggerPath' = CppToolsDebuggerPath(ext)
            /\ inflight' = {mi_debugger_path'} \cup
                              (IF cpptoolsDebuggerPath' # NULL
                               THEN {cpptoolsDebuggerPath'} ELSE {})
            /\ site' = "After1a"
            /\ pc' = "checkDebugger"
       ELSE /\ pc' = "LookForGDB"
            /\ NoProbe
            /\ UNCHANGED <<cpptools, cpptoolsDebuggerPath>>
    /\ UNCHANGED <<args, hostPlatform, stableEnv, fsMemo, probeMemo, debugger_name, compiler_path,
                   debuggerPath, ret, probes, fsChecks, warnings, result, history>>

\* Lines 189-197: 1a, lldb-mi in the compiler path.
LookForLLDBMI ==
    /\ pc = "LookForLLDBMI"
    /\ mi_debugger_path' = ReplaceClang(compiler_path, "lldb-mi")
    /\ IF AdmitsLLDBMI(modeOverride, mi_debugger_path')
       THEN /\ \E ext \in ExtensionAnswers :
                  /\ cpptools' = IF stableEnv THEN ext ELSE cpptools
                  /\ cpptoolsDebuggerPath' = CppToolsDebuggerPath(ext)
            /\ StartProbe(mi_debugger_path', "After1a")
       ELSE /\ pc' = "LookForGDB"
            /\ NoProbe
            /\ UNCHANGED <<cpptools, cpptoolsDebuggerPath>>
    /\ UNCHANGED <<args, hostPlatform, stableEnv, fsMemo, probeMemo, debugger_name, compiler_path,
                   debuggerPath, ret, probes, fsChecks, warnings, result, history>>

\* Mutant: a successful probe of 1a does not end the search.
After1a_FallThrough ==
    /\ pc = "After1a"
    /\ IF cpptoolsDebuggerPath # NULL
       THEN StartProbe(cpptoolsDebuggerPath, "After1b")
       ELSE /\ pc' = "LookForGDB"
            /\ NoProbe
    /\ UNCHANGED <<args, host, fsMemo, probeMemo, locals, ret, probes,
                   fsChecks, warnings, result, history>>

\* Lines 197-202: 1a answered; 1b, the lldb-mi installed by CppTools.
After1a ==
    /\ pc = "After1a"
    /\ IF ret
       THEN CreateConfig("lldb", mi_debugger_path)
       ELSE IF cpptoolsDebuggerPath # NULL
       THEN /\ StartProbe(cpptoolsDebuggerPath, "After1b")
            /\ UNCHANGED debuggerPath
       ELSE /\ pc' = "LookForGDB"
            /\ NoProbe
            /\ UNCHANGED debuggerPath
    /\ UNCHANGED <<args, host, fsMemo, probeMemo, debugger_name, compiler_path,
                   mi_debugger_path, cpptoolsDebuggerPath, ret, probes,
                   fsChecks, warnings, result, history>>

\* Lines 202-205: 1b answered.
After1b ==
    /\ pc = "After1b"
    /\ IF ret
       THEN CreateConfig("lldb", cpptoolsDebuggerPath)
       ELSE /\ pc' = "LookForGDB"
            /\ NoProbe
            /\ UNCHANGED debuggerPath
    /\ UNCHANGED <<args, host, fsMemo, probeMemo, debugger_name, compiler_path,
                   mi_debugger_path, cpptoolsDebuggerPath, ret, probes,
                   fsChecks, warnings, result, history>>

\* Lines 207-209: 2, gdb in the compiler path.
LookForGDB ==
    /\ pc = "LookForGDB"
    /\ mi_debugger_path' = ReplaceClang(compiler_path, "gdb")
    /\ IF AdmitsGDB(modeOverride, mi_debugger_path')
       THEN StartProbe(mi_debugger_path', "After2")
       ELSE /\ pc' = "LookForLLDB"
            /\ NoProbe
    /\ UNCHANGED <<args, host, fsMemo, probeMemo, debugger_name, compiler_path,
                   cpptoolsDebuggerPath, debuggerPath, ret, probes, fsChecks,
                   warnings, result, history>>

\* Mutant: a failed probe of step 2 is tried once more before step 3.
After2_Retry ==
    /\ pc = "After2"
    /\ IF ret
       THEN CreateConfig("gdb", mi_debugger_path)
       ELSE IF Cardinality({i \in DOMAIN probes : probes[i].site = "After2"}) < 2
       THEN /\ StartProbe(mi_debugger_path, "After2")
            /\ UNCHANGED debuggerPath
       ELSE /\ pc' = "LookForLLDB"
            /\ NoProbe
            /\ UNCHANGED debuggerPath
    /\ UNCHANGED <<args, host, fsMemo, probeMemo, debugger_name, compiler_path,
                   mi_debugger_path, cpptoolsDebuggerPath, ret, probes,
                   fsChecks, warnings, result, history>>

\* Lines 209-211: 2 answered.
After2 ==
    /\ pc = "After2"
    /\ IF ret
       THEN CreateConfig("gdb", mi_debugger_path)
       ELSE /\ pc' = "LookForLLDB"
            /\ NoProbe
            /\ UNCHANGED debuggerPath
    /\ UNCHANGED <<args, host, fsMemo, probeMemo, debugger_name, compiler_path,
                   mi_debugger_path, cpptoolsDebuggerPath, ret, probes,
                   fsChecks, warnings, result, history>>

\* Lines 213-215: 3, lldb in the compiler path.
LookForLLDB ==
    /\ pc = "LookForLLDB"
    /\ mi_debugger_path' = ReplaceClang(compiler_path, "lldb")
    /\ IF AdmitsLLDB(modeOverride, mi_debugger_path')
       THEN StartProbe(mi_debugger_path', "After3")
       ELSE /\ pc' = "GenericFallback"
            /\ NoProbe
    /\ UNCHANGED <<args, host, fsMemo, probeMemo, debugger_name, compiler_path,
                   cpptoolsDebuggerPath, debuggerPath, ret, probes, fsChecks,
                   warnings, result, history>>

\* Lines 215-217: 3 answered.
After3 ==
    /\ pc = "After3"
    /\ IF ret
       THEN CreateConfig("lldb", mi_debugger_path)
       ELSE /\ pc' = "GenericFallback"
            /\ NoProbe
            /\ UNCHANGED debuggerPath
    /\ UNCHANGED <<args, host, fsMemo, probeMemo, debugger_name, compiler_path,
                   mi_debugger_path, cpptoolsDebuggerPath, ret, probes,
                   fsChecks, warnings, result, history>>

\* Mutant: when no debugger can be determined the toolchain is taken for
\* MSVC instead of giving up.
GenericFallback_AssumeMsvc ==
    /\ pc = "GenericFallback"
    /\ LET derived == GenericFallbackDerived(compiler_path, debugger_name)
           asked == IsAbsolute(derived, win)
       IN  \E exists \in (IF asked THEN ExistsAnswers(derived) ELSE {FALSE}) :
              LET gdb_debugger_path ==
                      GenericFallbackPath(compiler_path, debugger_name, exists)
              IN  /\ fsMemo' = IF asked THEN Remember(fsMemo, derived, exists)
                               ELSE fsMemo
                  /\ fsChecks' = IF asked
                                 THEN Append(fsChecks, [path |-> derived,
                                                        exists |-> exists,
                                                        at |-> "fallback"])
                                 ELSE fsChecks
                  /\ IF Contains(gdb_debugger_path, debugger_name)
                     THEN /\ CreateConfig(debugger_name, gdb_debugger_path)
                          /\ UNCHANGED <<warnings, result>>
                     ELSE /\ Warn("unable.to.determine.debugger.for.compiler")
                          /\ Finish(Returned(createMSVCDebugConfiguration(target)))
                          /\ NoProbe
                          /\ UNCHANGED debuggerPath
    /\ UNCHANGED <<args, host, probeMemo, debugger_name, compiler_path,
                   mi_debugger_path, cpptoolsDebuggerPath, ret, probes, history>>

\* Lines 219-233: the generic fallback, or the warning and null.
GenericFallback ==
    /\ pc = "GenericFallback"
    /\ LET derived == GenericFallbackDerived(compiler_path, debugger_name)
           asked == IsAbsolute(derived, win)
       IN  \E exists \in (IF asked THEN ExistsAnswers(derived) ELSE {FALSE}) :
              LET gdb_debugger_path ==
                      GenericFallbackPath(compiler_path, debugger_name, exists)
              IN  /\ fsMemo' = IF asked THEN Remember(fsMemo, derived, exists)
                               ELSE fsMemo
                  /\ fsChecks' = IF asked
                                 THEN Append(fsChecks, [path |-> derived,
                                                        exists |-> exists,
                                                        at |-> "fallback"])
                                 ELSE fsChecks
                  /\ IF Contains(gdb_debugger_path, debugger_name)
                     THEN /\ CreateConfig(debugger_name, gdb_debugger_path)
                          /\ UNCHANGED <<warnings, result>>
                     ELSE /\ Warn("unable.to.determine.debugger.for.compiler")
                          /\ Finish(ReturnedNull)
                          /\ NoProbe
                          /\ UNCHANGED debuggerPath
    /\ UNCHANGED <<args, host, probeMemo, debugger_name, compiler_path,
                   mi_debugger_path, cpptoolsDebuggerPath, ret, probes, history>>

\* Lines 236-239: the probe `<path> --version` ends; retc === 0 is success.
checkDebugger ==
    /\ pc = "checkDebugger"
    /\ \E path \in inflight :
          \E retc \in ExitCodes(path) :
             /\ ret' = (retc = 0)
             /\ probeMemo' = Remember(probeMemo, path, retc)
             /\ probes' = Append(probes, [path |-> path, site |-> site,
                                          ok |-> (retc = 0)])
             /\ inflight' = inflight \ {path}
    /\ pc' = site
    /\ UNCHANGED <<args, host, fsMemo, locals, site, fsChecks, warnings,
                   result, history>>

\* Mutant: the GDB builder probes the path it was given a second time
\* before it turns to the bare `gdb`.
CreateGDBChecked_Twice ==
    /\ pc = "createGDB"
    /\ IF ~ret
       THEN IF Cardinality({i \in DOMAIN probes : probes[i].site = "createGDB"}) < 2
            THEN /\ StartProbe(debuggerPath, "createGDB")
                 /\ UNCHANGED <<debuggerPath, result>>
            ELSE /\ debuggerPath' = "gdb"
                 /\ StartProbe("gdb", "createGDB.bare")
                 /\ UNCHANGED result
       ELSE /\ Finish(Returned(GDBConfig(debuggerPath, target)))
            /\ NoProbe
            /\ UNCHANGED debuggerPath
    /\ UNCHANGED <<args, host, fsMemo, probeMemo, debugger_name, compiler_path,
                   mi_debugger_path, cpptoolsDebuggerPath, ret, probes,
                   fsChecks, warnings, history>>

\* Lines 66-67 and 73-89: createGDBDebugConfiguration after its first probe.
CreateGDBChecked ==
    /\ pc = "createGDB"
    /\ IF ~ret
       THEN /\ debuggerPath' = "gdb"
            /\ StartProbe("gdb", "createGDB.bare")
            /\ UNCHANGED result
       ELSE /\ Finish(Returned(GDBConfig(debuggerPath, target)))
            /\ NoProbe
            /\ UNCHANGED debuggerPath
    /\ UNCHANGED <<args, host, fsMemo, probeMemo, debugger_name, compiler_path,
                   mi_debugger_path, cpptoolsDebuggerPath, ret, probes,
                   fsChecks, warnings, history>>

\* Mutant: the answer of the bare `gdb` probe is not looked at.
CreateGDBBareChecked_Unchecked ==
    /\ pc = "createGDB.bare"
    /\ Finish(Returned(GDBConfig(debuggerPath, target)))
    /\ UNCHANGED <<args, host, fsMemo, probeMemo, locals, site, ret, inflight,
                   probes, fsChecks, warnings, history>>

\* Lines 68-89: createGDBDebugConfiguration after probing the bare `gdb`.
CreateGDBBareChecked ==
    /\ pc = "createGDB.bare"
    /\ IF ~ret
       THEN Finish(Thrown("gdb.not.found", debuggerPath))
       ELSE Finish(Returned(GDBConfig(debuggerPath, target)))
    /\ UNCHANGED <<args, host, fsMemo, probeMemo, locals, site, ret, inflight,
                   probes, fsChecks, warnings, history>>

\* Mutant: a failed probe in createLLDBDebugConfiguration gives null.
CreateLLDBChecked_Soft ==
    /\ pc = "createLLDB"
    /\ IF ~ret
       THEN Finish(ReturnedNull)
       ELSE Finish(Returned(LLDBConfig(debuggerPath, target)))
    /\ UNCHANGED <<args, host, fsMemo, probeMemo, locals, site, ret, inflight,
                   probes, fsChecks, warnings, history>>

\* Lines 93-106: createLLDBDebugConfiguration after its probe.
CreateLLDBChecked ==
    /\ pc = "createLLDB"
    /\ IF ~ret
       THEN Finish(Thrown("gdb.not.found", debuggerPath))
       ELSE Finish(Returned(LLDBConfig(debuggerPath, target)))
    /\ UNCHANGED <<args, host, fsMemo, probeMemo, locals, site, ret, inflight,
                   probes, fsChecks, warnings, history>>

Next ==
    \/ Call
    \/ ClassifyLinker
    \/ ResolveOverride
    \/ ResolveCompiler
    \/ LookForLLDBMI
    \/ After1a
    \/ After1b
    \/ LookForGDB
    \/ After2
    \/ LookForLLDB
    \/ After3
    \/ GenericFallback
    \/ checkDebugger
    \/ CreateGDBChecked
    \/ CreateGDBBareChecked
    \/ CreateLLDBChecked

Spec == Init /\ [][Next]_vars

(***************************************************************************)
(* Vocabulary of the properties                                            *)
(***************************************************************************)
Done == pc = "done"

\* CMAKE_LINKER is recorded and names an MSVC linker.
LinkerIsMsvc ==
    /\ cache.CMAKE_LINKER # NULL
    /\ \/ EndsWith(cache.CMAKE_LINKER, "link.exe")
       \/ EndsWith(cache.CMAKE_LINKER, "ld.lld.exe")

\* The first present entry among CXX, C, CUDA; NULL when all are absent.
FirstCompiler ==
    IF cache.CMAKE_CXX_COMPILER # NULL THEN cache.CMAKE_CXX_COMPILER
    ELSE IF cache.CMAKE_C_COMPILER # NULL THEN cache.CMAKE_C_COMPILER
    ELSE cache.CMAKE_CUDA_COMPILER

\* This call found debuggerPathOverride absolute and existing on disk.
OverrideAccepted ==
    \E i \in DOMAIN fsChecks : fsChecks[i].at = "override" /\ fsChecks[i].exists

IsMsvcResult(r) == r.kind = "config" /\ r.config.type = "cppvsdbg"
IsCppdbgResult(r) == r.kind = "config" /\ r.config.type = "cppdbg"

(***************************************************************************)
(* Properties                                                              *)
(***************************************************************************)

\* C1: a call whose cache records an MSVC linker (CMAKE_LINKER ending in
\* link.exe or ld.lld.exe) ends by returning the MSVC configuration, whatever
\* the platform, the overrides, the compiler entries and the probe outcomes:
\* never null, never a cppdbg configuration, never an error.
C1_MsvcLinkerReturnsMsvc ==
    (Done /\ LinkerIsMsvc) =>
        /\ IsMsvcResult(result)
        /\ result.config = createMSVCDebugConfiguration(target)

\* C1 witness: an ld.lld.exe linker, no compiler entry at all, a gdb mode
\* override and an absolute path override, and the MSVC configuration.
C1_Witness ==
    /\ Done
    /\ cache.CMAKE_LINKER = "/b/ld.lld.exe"
    /\ FirstCompiler = NULL
    /\ modeOverride = "gdb"
    /\ debuggerPathOverride = "/o/dbg"
    /\ IsMsvcResult(result)

\* C2 as stated: without MSVC linker, a resolved compiler path ending in
\* cl.exe gives the MSVC configuration for every debuggerPathOverride.
C2_Original ==
    (Done /\ ~LinkerIsMsvc /\ FirstCompiler # NULL
          /\ EndsWith(FirstCompiler, "cl.exe")) =>
        IsMsvcResult(result)

\* C2 amended: without MSVC linker and without a valid debuggerPathOverride
\* (absolute and existing), a resolved compiler path ending in cl.exe gives
\* the MSVC configuration; with a valid override the call ends in the
\* builder of the preferred family and never returns the MSVC configuration.
C2_ClExeReturnsMsvcUnlessOverride ==
    (Done /\ ~LinkerIsMsvc /\ FirstCompiler # NULL
          /\ EndsWith(FirstCompiler, "cl.exe")) =>
        IF OverrideAccepted
        THEN ~IsMsvcResult(result) /\ result.kind \in {"config", "error"}
        ELSE /\ IsMsvcResult(result)
             /\ result.config = createMSVCDebugConfiguration(target)

\* C2 witness: cl.exe compiler, a recorded non-MSVC linker, an invalid
\* absolute override, lldb mode on darwin, and the MSVC configuration.
C2_Witness ==
    /\ Done
    /\ cache.CMAKE_LINKER = "/b/ld"
    /\ FirstCompiler = "C:/m/cl.exe"
    /\ debuggerPathOverride = "/o/dbg"
    /\ ~OverrideAccepted
    /\ modeOverride = "lldb"
    /\ IsMsvcResult(result)

\* C3 as stated: a cache with none of the three compiler entries always
\* ends in the 'no compiler found in cache' error.
C3_Original ==
    (Done /\ FirstCompiler = NULL) =>
        (result.kind = "error" /\ result.error = "no.compiler.found.in.cache")

\* C3 amended: a cache with none of the three compiler entries ends in the
\* 'no compiler found in cache' error (not null, not a configuration)
\* provided no MSVC linker is recorded and no valid debuggerPathOverride is
\* given; an MSVC linker gives the MSVC configuration instead, and a valid
\* override ends the call in the builder, which never raises that error.
C3_NoCompilerIsFatal ==
    (Done /\ FirstCompiler = NULL) =>
        IF LinkerIsMsvc THEN IsMsvcResult(result)
        ELSE IF OverrideAccepted
        THEN /\ result.kind \in {"config", "error"}
             /\ result.kind = "error" => result.error = "gdb.not.found"
        ELSE result = Thrown("no.compiler.found.in.cache", NULL)

\* C3 witness: no compiler entry, a non-MSVC linker, a relative override
\* (ignored), and the fatal error.
C3_Witness ==
    /\ Done
    /\ FirstCompiler = NULL
    /\ cache.CMAKE_LINKER = "/b/ld"
    /\ debuggerPathOverride = "dbg"
    /\ result.kind = "error"
    /\ result.error = "no.compiler.found.in.cache"


\* The family a probe belongs to, by the place that issued it: steps 1a, 1b
\* and 3 and createLLDBDebugConfiguration probe LLDB candidates, step 2 and
\* createGDBDebugConfiguration probe GDB candidates.
SiteFamily(s) ==
    IF s \in {"After2", "createGDB", "createGDB.bare"} THEN "gdb" ELSE "lldb"

BuilderSites == {"createGDB", "createGDB.bare", "createLLDB"}

AllProbesFailed == \A i \in DOMAIN probes : ~probes[i].ok
SomeBuilderProbe == \E i \in DOMAIN probes : probes[i].site \in BuilderSites
LastWarning == IF warnings = <<>> THEN NULL ELSE warnings[Len(warnings)]

\* C4: with modeOverride set, at every moment of a call no probe of the other
\* family has been issued or is in flight, and a returned cppdbg
\* configuration has MIMode equal to modeOverride.
C4_ModeOverrideExcludesOtherFamily ==
    modeOverride # NULL =>
        /\ \A i \in DOMAIN probes : SiteFamily(probes[i].site) = modeOverride
        /\ pc = "checkDebugger" => SiteFamily(site) = modeOverride
        /\ IsCppdbgResult(result) => result.config.MIMode = modeOverride

\* C4 witness: gdb requested on darwin for /b/clang, which has no gdb beside
\* it: the only probe is the gdb one of step 2, and the call returns null.
C4_Witness ==
    /\ Done
    /\ modeOverride = "gdb"
    /\ platform = "darwin"
    /\ compiler_path = "/b/clang"
    /\ probes = <<[path |-> "/b/gdb", site |-> "After2", ok |-> FALSE]>>
    /\ result = ReturnedNull

\* A compiler was found, the toolchain is not MSVC, no valid override.
AutomaticDetection ==
    /\ ~LinkerIsMsvc
    /\ FirstCompiler # NULL
    /\ ~EndsWith(FirstCompiler, "cl.exe")
    /\ ~OverrideAccepted

\* C5 as stated: when every probe of the call failed, the generic fallback
\* candidate's included, the call returns null and raises nothing.
C5_Original ==
    (Done /\ AutomaticDetection /\ AllProbesFailed) => result = ReturnedNull

\* C5 amended: null is returned, after the warning, exactly when every
\* candidate of steps 1-3 that was probed failed and the generic fallback
\* yields no candidate (its path does not contain the preferred family's
\* name), so that no builder ran.  A generic fallback candidate that fails
\* its probe never gives null: the call raises 'gdb.not.found' when every
\* probe failed (createGDBDebugConfiguration after the bare `gdb` failed
\* too, createLLDBDebugConfiguration at once).
C5_SoftFailure ==
    /\ (Done /\ AutomaticDetection /\ AllProbesFailed /\ ~SomeBuilderProbe) =>
          /\ result = ReturnedNull
          /\ LastWarning = "unable.to.determine.debugger.for.compiler"
    /\ (Done /\ result = ReturnedNull) =>
          /\ AutomaticDetection
          /\ AllProbesFailed
          /\ ~SomeBuilderProbe
          /\ LastWarning = "unable.to.determine.debugger.for.compiler"
    /\ (Done /\ AutomaticDetection /\ AllProbesFailed /\ SomeBuilderProbe) =>
          /\ result.kind = "error"
          /\ result.error = "gdb.not.found"

\* C5 witness: lldb requested for /b/clang, which exists on disk: the lldb-mi
\* and lldb candidates fail, the generic fallback yields no candidate, and
\* the call returns null with the warning.
C5_Witness ==
    /\ Done
    /\ modeOverride = "lldb"
    /\ compiler_path = "/b/clang"
    /\ Len(probes) >= 2
    /\ AllProbesFailed
    /\ result = ReturnedNull
    /\ LastWarning = "unable.to.determine.debugger.for.compiler"

\* A path that is relative on every host: no leading separator, no drive.
IsRelativePath(p) ==
    /\ p # NULL
    /\ Ch(p, 1) \notin {"/", "\\"}
    /\ ~(Len(p) >= 2 /\ Ch(p, 2) = ":")

\* An override the stable environment makes invalid: relative, or absolute
\* and known not to exist on disk.
IsInvalidOverride(o) ==
    /\ o # NULL
    /\ \/ IsRelativePath(o)
       \/ (o \in DOMAIN fsMemo /\ ~fsMemo[o])

\* C6 as stated: an invalid debuggerPathOverride is never probed, and the
\* call ends as the same call without override ends.
C6_Original ==
    /\ (debuggerPathOverride # NULL /\ ~OverrideAccepted) =>
          \A i \in DOMAIN probes : probes[i].path # debuggerPathOverride
    /\ (stableEnv /\ Done /\ debuggerPathOverride = NULL) =>
          \A k \in DOMAIN history :
             IsInvalidOverride(history[k].debuggerPathOverride) =>
                result = history[k].result

\* C6 amended: in a stable environment a call with an invalid
\* debuggerPathOverride ends as the same call without override ends
\* (configuration, null or error), and issues the very same probes in the
\* same order: the override step probes nothing and is not fatal.  (The
\* override string itself can still be probed when automatic detection
\* arrives at it, as the relative override `gdb` and the bare command.)
C6_InvalidOverrideIgnored ==
    (stableEnv /\ Done /\ debuggerPathOverride = NULL) =>
        \A k \in DOMAIN history :
           IsInvalidOverride(history[k].debuggerPathOverride) =>
              /\ result = history[k].result
              /\ probes = history[k].probes

\* C6 witness: a call with the absolute override /o/dbg, which does not
\* exist, then the same call without override, both returning a cppdbg
\* configuration after at least two probes.
C6_Witness ==
    /\ stableEnv
    /\ Done
    /\ debuggerPathOverride = NULL
    /\ Len(history) = 1
    /\ history[1].debuggerPathOverride = "/o/dbg"
    /\ IsInvalidOverride("/o/dbg")
    /\ Len(probes) >= 2
    /\ IsCppdbgResult(result)

\* The probes of the candidates 1a, 1b, 2, 3 (not those of the builders).
CandidateProbes == SelectSeq(probes, LAMBDA r : r.site \notin BuilderSites)

\* The candidates this call admits, in the order of the source's steps.
AdmittedCandidates ==
    LET lldbmi == ReplaceClang(FirstCompiler, "lldb-mi")
        gdb    == ReplaceClang(FirstCompiler, "gdb")
        lldb   == ReplaceClang(FirstCompiler, "lldb")
        one    == modeOverride # "gdb" /\ Contains(lldbmi, "lldb-mi")
    IN  (IF one THEN <<[site |-> "After1a", path |-> lldbmi]>> ELSE <<>>)
        \o (IF one /\ cpptoolsDebuggerPath # NULL
            THEN <<[site |-> "After1b", path |-> cpptoolsDebuggerPath]>>
            ELSE <<>>)
        \o (IF modeOverride # "lldb" /\ Contains(gdb, "gdb")
            THEN <<[site |-> "After2", path |-> gdb]>> ELSE <<>>)
        \o (IF modeOverride # "gdb" /\ Contains(lldb, "lldb")
            THEN <<[site |-> "After3", path |-> lldb]>> ELSE <<>>)

BuilderSiteOf(family) == IF family = "gdb" THEN "createGDB" ELSE "createLLDB"

\* C7 as stated: once a candidate's probe succeeded, the configuration
\* returned is built from that candidate and nothing else is probed.
C7_Original ==
    LET cp == CandidateProbes
    IN  (Done /\ AutomaticDetection /\ cp # <<>> /\ cp[Len(cp)].ok) =>
           /\ IsCppdbgResult(result)
           /\ result.config.miDebuggerPath = cp[Len(cp)].path
           /\ \A j \in DOMAIN probes : j > Len(cp) => probes[j].path = cp[Len(cp)].path

\* C7 amended: the candidates are probed in the fixed order 1a, 1b, 2, 3,
\* each only after every earlier admitted candidate was probed and failed,
\* and no candidate is probed after the first success.  The builder then
\* probes the chosen path a second time: the configuration returned has that
\* path and the candidate's family provided this second probe succeeds too
\* (as it does when probe outcomes are stable); if it fails,
\* createGDBDebugConfiguration goes on to the bare `gdb` and
\* createLLDBDebugConfiguration raises.  With /b/clang++, no mode override
\* and a working /b/lldb-mi the result is /b/lldb-mi with MIMode lldb.
C7_CandidatePrecedence ==
    LET cp == CandidateProbes
        n  == Len(cp)
    IN  /\ n <= Len(AdmittedCandidates)
        /\ \A i \in 1..n :
              /\ probes[i] = cp[i]
              /\ cp[i].site = AdmittedCandidates[i].site
              /\ cp[i].path = AdmittedCandidates[i].path
              /\ i < n => ~cp[i].ok
        /\ (Done /\ AutomaticDetection /\ (n = 0 \/ ~cp[n].ok)) =>
              n = Len(AdmittedCandidates)
        /\ (Done /\ AutomaticDetection /\ n > 0 /\ cp[n].ok) =>
              /\ Len(probes) > n
              /\ probes[n + 1].path = cp[n].path
              /\ probes[n + 1].site = BuilderSiteOf(SiteFamily(cp[n].site))
              /\ (probes[n + 1].ok \/ stableEnv) =>
                    /\ Len(probes) = n + 1
                    /\ IsCppdbgResult(result)
                    /\ result.config.miDebuggerPath = cp[n].path
                    /\ result.config.MIMode = SiteFamily(cp[n].site)
        /\ (Done /\ AutomaticDetection /\ stableEnv /\ modeOverride = NULL
                 /\ FirstCompiler = "/b/clang++"
                 /\ "/b/lldb-mi" \in DOMAIN probeMemo
                 /\ probeMemo["/b/lldb-mi"] = 0) =>
              /\ IsCppdbgResult(result)
              /\ result.config.miDebuggerPath = "/b/lldb-mi"
              /\ result.config.MIMode = "lldb"

\* C7 witness: /b/clang++ on linux without mode override; lldb-mi beside the
\* compiler and the CppTools one fail, gdb beside the compiler succeeds, and
\* the call returns the gdb configuration without probing lldb.
C7_Witness ==
    /\ Done
    /\ modeOverride = NULL
    /\ platform = "linux"
    /\ FirstCompiler = "/b/clang++"
    /\ AutomaticDetection
    /\ Len(CandidateProbes) = 3
    /\ CandidateProbes[3] = [path |-> "/b/gdb", site |-> "After2", ok |-> TRUE]
    /\ Len(probes) = 4
    /\ IsCppdbgResult(result)
    /\ result.config.miDebuggerPath = "/b/gdb"
    /\ result.config.MIMode = "gdb"

\* C8: the compiler path the resolution uses is the value of the first
\* present entry among CMAKE_CXX_COMPILER, CMAKE_C_COMPILER and
\* CMAKE_CUDA_COMPILER; a call that looks the compiler up (no MSVC linker, no
\* valid override) uses it, and the lookup fails only when all three entries
\* are absent.
C8_CompilerLookupOrder ==
    /\ compiler_path # NULL => compiler_path = FirstCompiler
    /\ (Done /\ ~LinkerIsMsvc /\ ~OverrideAccepted) =>
          /\ compiler_path = FirstCompiler
          /\ result = Thrown("no.compiler.found.in.cache", NULL)
                <=> /\ cache.CMAKE_CXX_COMPILER = NULL
                    /\ cache.CMAKE_C_COMPILER = NULL
                    /\ cache.CMAKE_CUDA_COMPILER = NULL
    /\ (Done /\ result.kind = "error" /\ result.error = "no.compiler.found.in.cache") =>
          FirstCompiler = NULL

\* C8 witness: the C++ entry absent, the C and CUDA entries present: the C
\* entry's value is used.
C8_Witness ==
    /\ cache.CMAKE_CXX_COMPILER = NULL
    /\ cache.CMAKE_C_COMPILER = "gcc"
    /\ cache.CMAKE_CUDA_COMPILER = "/b/nvcc"
    /\ compiler_path = "gcc"
    /\ Done

\* The preferred family: modeOverride, else lldb on darwin and gdb elsewhere.
PreferredFamily ==
    IF modeOverride # NULL THEN modeOverride
    ELSE IF platform = "darwin" THEN "lldb" ELSE "gdb"

\* C9 as stated: a valid debuggerPathOverride (and no MSVC linker) always
\* gives a configuration of the preferred family with that path.
C9_Original ==
    (Done /\ ~LinkerIsMsvc /\ OverrideAccepted) =>
        /\ IsCppdbgResult(result)
        /\ result.config.MIMode = PreferredFamily
        /\ result.config.miDebuggerPath = debuggerPathOverride

\* C9 amended: a valid debuggerPathOverride (and no MSVC linker) hands the
\* path to the preferred family's builder without the compiler entries being
\* looked at; the builder probes it, and the call returns that family's
\* configuration with miDebuggerPath equal to the override when the probe
\* succeeds.  When it fails, createLLDBDebugConfiguration raises
\* 'gdb.not.found', and createGDBDebugConfiguration probes the bare `gdb`,
\* returning a gdb configuration with miDebuggerPath 'gdb' or raising.
C9_ValidOverrideUsed ==
    (~LinkerIsMsvc /\ OverrideAccepted) =>
        /\ compiler_path = NULL
        /\ Len(fsChecks) = 1
        /\ probes # <<>> =>
              /\ probes[1].path = debuggerPathOverride
              /\ probes[1].site = BuilderSiteOf(PreferredFamily)
        /\ Done =>
              /\ probes # <<>>
              /\ probes[1].ok =>
                    /\ Len(probes) = 1
                    /\ IsCppdbgResult(result)
                    /\ result.config.MIMode = PreferredFamily
                    /\ result.config.miDebuggerPath = debuggerPathOverride
              /\ (~probes[1].ok /\ PreferredFamily = "lldb") =>
                    /\ Len(probes) = 1
                    /\ result = Thrown("gdb.not.found", debuggerPathOverride)
              /\ (~probes[1].ok /\ PreferredFamily = "gdb") =>
                    /\ Len(probes) = 2
                    /\ probes[2].path = "gdb"
                    /\ IF probes[2].ok
                       THEN /\ IsCppdbgResult(result)
                            /\ result.config.MIMode = "gdb"
                            /\ result.config.miDebuggerPath = "gdb"
                       ELSE result = Thrown("gdb.not.found", "gdb")

\* C9 witness: no compiler entry, no mode override, darwin, the override
\* /o/dbg exists and passes its probe: the lldb configuration with that path.
C9_Witness ==
    /\ Done
    /\ ~LinkerIsMsvc
    /\ FirstCompiler = NULL
    /\ modeOverride = NULL
    /\ platform = "darwin"
    /\ debuggerPathOverride = "/o/dbg"
    /\ OverrideAccepted
    /\ IsCppdbgResult(result)
    /\ result.config.MIMode = "lldb"
    /\ result.config.miDebuggerPath = "/o/dbg"

\* C10: in a stable environment (the same filesystem answers, the same probe
\* outcome per path) a repeated call with identical arguments ends as the
\* earlier call did: the same kind of outcome and, for a configuration, the
\* same value of every field.
C10_Deterministic ==
    (stableEnv /\ Done) =>
        \A k \in DOMAIN history :
           history[k].debuggerPathOverride = debuggerPathOverride =>
              result = history[k].result

\* C10 witness: a second call with the same override that needed at least
\* two probes and returned a cppdbg configuration, as the first did.
C10_Witness ==
    /\ stableEnv
    /\ Done
    /\ Len(history) = 1
    /\ history[1].debuggerPathOverride = debuggerPathOverride
    /\ Len(probes) >= 2
    /\ IsCppdbgResult(result)
    /\ history[1].result = result


\* C11: every configuration a call returns has one of three shapes.  MSVC:
\* type 'cppvsdbg' and none of MIMode, miDebuggerPath, setupCommands.  GDB:
\* type 'cppdbg', MIMode 'gdb', a miDebuggerPath and the one setup command
\* '-enable-pretty-printing'.  LLDB: type 'cppdbg', MIMode 'lldb', a
\* miDebuggerPath and no setupCommands.  All three have the name
\* 'Debug <target.name>', request 'launch', no args, and the target's path
\* as program.
C11_ConfigShapes ==
    result.kind = "config" =>
        LET cfg == result.config
            fields == DOMAIN cfg
            common == {"type", "name", "request", "cwd", "args", "program"}
        IN  /\ common \subseteq fields
            /\ cfg.name = "Debug " \o target.name
            /\ cfg.request = "launch"
            /\ cfg.args = <<>>
            /\ cfg.program = target.path
            /\ \/ /\ cfg.type = "cppvsdbg"
                  /\ fields = common
               \/ /\ cfg.type = "cppdbg"
                  /\ fields = common \cup {"MIMode", "miDebuggerPath",
                                           "setupCommands"}
                  /\ cfg.MIMode = "gdb"
                  /\ cfg.miDebuggerPath # NULL
                  /\ Len(cfg.setupCommands) = 1
                  /\ cfg.setupCommands[1].text = "-enable-pretty-printing"
               \/ /\ cfg.type = "cppdbg"
                  /\ fields = common \cup {"MIMode", "miDebuggerPath"}
                  /\ cfg.MIMode = "lldb"
                  /\ cfg.miDebuggerPath # NULL

\* C11 witness: an LLDB configuration comes back, from the lldb beside
\* /b/clang found at step 3.
C11_Witness ==
    /\ Done
    /\ IsCppdbgResult(result)
    /\ result.config.MIMode = "lldb"
    /\ result.config.miDebuggerPath = "/b/lldb"
    /\ "setupCommands" \notin DOMAIN result.config
    /\ \E i \in DOMAIN probes : probes[i].site = "After3" /\ probes[i].ok


\* The place of a probing step in the order of the source: steps 1a, 1b, 2
\* and 3, then the builder's probe of the path it is given, then the GDB
\* builder's probe of the bare command.
StepOrder(s) ==
    CASE s = "After1a" -> 1
      [] s = "After1b" -> 2
      [] s = "After2" -> 3
      [] s = "After3" -> 4
      [] s \in {"createGDB", "createLLDB"} -> 5
      [] s = "createGDB.bare" -> 6

\* C12 as stated: within one call a path whose probe failed is never probed
\* again.
C12_Original ==
    \A i, j \in DOMAIN probes :
        (i < j /\ ~probes[i].ok) => probes[j].path # probes[i].path

\* C12 amended: no probing step is repeated.  Within one call each step
\* (1a, 1b, 2, 3, the builder's probe of the path it is given, the bare gdb
\* probe) issues at most one probe, the steps run in the order of the
\* source, and the probe in flight belongs to a later step than every probe
\* answered.  The paths of different steps may be equal, so a path that
\* failed can be probed again by a later step.
C12_NoStepRepeated ==
    /\ \A i, j \in DOMAIN probes :
          i < j => StepOrder(probes[i].site) < StepOrder(probes[j].site)
    /\ pc = "checkDebugger" =>
          \A i \in DOMAIN probes : StepOrder(probes[i].site) < StepOrder(site)

\* C12 witness: /b/gdb fails at step 2 for /b/clang++, and the generic
\* fallback hands the same /b/gdb to the GDB builder, which probes it again.
C12_Witness ==
    /\ Done
    /\ \E i, j \in DOMAIN probes :
          /\ i < j
          /\ probes[i] = [path |-> "/b/gdb", site |-> "After2", ok |-> FALSE]
          /\ probes[j].path = "/b/gdb"
          /\ probes[j].site = "createGDB"


\* C13: the bare-command fallback, for either family.  When the probe of
\* the path handed to a builder fails, the bare command of the builder's
\* family ('gdb' or 'lldb') is probed next; a configuration with the bare
\* name as miDebuggerPath is returned when that probe succeeds, and the
\* fatal error is raised only when it fails too.
C13_BareFallback ==
    \A i \in DOMAIN probes :
        (Done /\ probes[i].site \in {"createGDB", "createLLDB"} /\ ~probes[i].ok) =>
            LET family == SiteFamily(probes[i].site)
            IN  /\ Len(probes) = i + 1
                /\ probes[i + 1].path = family
                /\ IF probes[i + 1].ok
                   THEN /\ IsCppdbgResult(result)
                        /\ result.config.MIMode = family
                        /\ result.config.miDebuggerPath = family
                   ELSE result.kind = "error"


\* C14: the preferred family.  A configuration built from a valid
\* debuggerPathOverride or from the generic-fallback candidate (no candidate
\* of steps 1-3 passed its probe) has, with modeOverride unset, MIMode 'lldb'
\* exactly when the platform is 'darwin' and 'gdb' otherwise; with
\* modeOverride set it has MIMode equal to modeOverride on every platform.
C14_PreferredFamilyDecidesMIMode ==
    (/\ Done
     /\ IsCppdbgResult(result)
     /\ \A i \in DOMAIN probes : probes[i].site \notin BuilderSites => ~probes[i].ok) =>
        IF modeOverride = NULL
        THEN /\ result.config.MIMode \in {"gdb", "lldb"}
             /\ result.config.MIMode = "lldb" <=> platform = "darwin"
        ELSE result.config.MIMode = modeOverride

\* C14 witness: on darwin with modeOverride unset, /b/g++ gives no candidate
\* at steps 1-3 and the generic fallback builds the LLDB configuration for
\* /b/lldb.
C14_Witness ==
    /\ Done
    /\ platform = "darwin"
    /\ modeOverride = NULL
    /\ debuggerPathOverride = NULL
    /\ compiler_path = "/b/g++"
    /\ probes = <<[path |-> "/b/lldb", site |-> "createLLDB", ok |-> TRUE]>>
    /\ result = Returned(LLDBConfig("/b/lldb", target))


\* C15: probing is strictly sequential.  At every moment of a call at most
\* one probe is outstanding, and only while the call awaits it.  The probe
\* of a candidate of steps 1-3 starts only after every earlier probe was
\* answered with a failure; the builder's probe starts only after every
\* earlier candidate failed, but for the candidate the builder is given,
\* whose success it follows; the bare gdb probe starts only after the
\* builder's first probe failed.
C15_SequentialProbing ==
    /\ Cardinality(inflight) <= 1
    /\ inflight # {} <=> pc = "checkDebugger"
    /\ (pc = "checkDebugger" /\ site \notin BuilderSites) => AllProbesFailed
    /\ (pc = "checkDebugger" /\ site \in {"createGDB", "createLLDB"}) =>
          \A i \in DOMAIN probes :
              probes[i].ok => (i = Len(probes) /\ inflight = {probes[i].path})
    /\ (pc = "checkDebugger" /\ site = "createGDB.bare") =>
          /\ probes # <<>>
          /\ probes[Len(probes)].site = "createGDB"
          /\ ~probes[Len(probes)].ok

\* C15 witness: the probe of step 3 is outstanding, after the probes of
\* 1a, 1b and 2 were answered with a failure, one after the other.
C15_Witness ==
    /\ pc = "checkDebugger"
    /\ site = "After3"
    /\ inflight = {"/b/lldb"}
    /\ Len(probes) = 3
    /\ probes[1].site = "After1a"
    /\ probes[2].site = "After1b"
    /\ probes[3].site = "After2"
    /\ AllProbesFailed


\* The paths automatic detection can hand to a builder or a builder can
\* return for the compiler of this call: the candidates of steps 1-3, the
\* two forms of the generic-fallback path, and the bare gdb.
DetectedPaths ==
    {ReplaceClang(FirstCompiler, "lldb-mi"),
     cpptoolsDebuggerPath,
     ReplaceClang(FirstCompiler, "gdb"),
     ReplaceClang(FirstCompiler, "lldb"),
     GenericFallbackPath(FirstCompiler, PreferredFamily, TRUE),
     GenericFallbackPath(FirstCompiler, PreferredFamily, FALSE),
     "gdb"} \ {NULL}

\* C16 as stated: the miDebuggerPath of a returned configuration differs
\* from a relative debuggerPathOverride.
C16_Original ==
    (Done /\ IsRelativePath(debuggerPathOverride) /\ IsCppdbgResult(result)) =>
        result.config.miDebuggerPath # debuggerPathOverride

\* C16 amended: a relative debuggerPathOverride is never handed to a
\* builder.  The call warns, asks the disk nothing about the override, goes
\* on to automatic detection, and the miDebuggerPath of a configuration it
\* returns is a path automatic detection derives: it differs from the
\* override unless detection derives that very string.
C16_RelativeOverrideNotUsed ==
    (Done /\ IsRelativePath(debuggerPathOverride) /\ ~LinkerIsMsvc) =>
        /\ \A i \in DOMAIN fsChecks : fsChecks[i].at # "override"
        /\ warnings # <<>>
        /\ warnings[1] = "invalid.miDebuggerPath.override"
        /\ IsCppdbgResult(result) =>
              /\ FirstCompiler # NULL
              /\ result.config.miDebuggerPath \in DetectedPaths
              /\ debuggerPathOverride \notin DetectedPaths =>
                    result.config.miDebuggerPath # debuggerPathOverride

\* C16 witness: the relative override 'dbg' is given, and the call returns
\* the gdb found beside the compiler.
C16_Witness ==
    /\ Done
    /\ debuggerPathOverride = "dbg"
    /\ warnings = <<"invalid.miDebuggerPath.override">>
    /\ IsCppdbgResult(result)
    /\ result.config.miDebuggerPath = "/b/gdb"


\* C17: a validated result.  Whenever a call returns a GDB or LLDB
\* configuration, the last probe of the call was a probe of exactly the
\* returned miDebuggerPath, issued by the builder, and it exited with 0:
\* also when the outcomes of probes of one path change during the call.
C17_ValidatedResult ==
    (Done /\ IsCppdbgResult(result)) =>
        /\ probes # <<>>
        /\ probes[Len(probes)].path = result.config.miDebuggerPath
        /\ probes[Len(probes)].ok
        /\ probes[Len(probes)].site \in BuilderSites
        /\ SiteFamily(probes[Len(probes)].site) = result.config.MIMode

\* C17 witness: probe outcomes change during the call.  /b/gdb passes at
\* step 2 and fails when the GDB builder probes it again; the bare gdb
\* passes and is returned.
C17_Witness ==
    /\ Done
    /\ ~stableEnv
    /\ probes = <<[path |-> "/b/gdb", site |-> "After2", ok |-> TRUE],
                  [path |-> "/b/gdb", site |-> "createGDB", ok |-> FALSE],
                  [path |-> "gdb", site |-> "createGDB.bare", ok |-> TRUE]>>
    /\ IsCppdbgResult(result)
    /\ result.config.miDebuggerPath = "gdb"


\* A call has begun and has not ended.
InCall == pc \notin {"idle", "done"}

\* How far a call has come: the statements of getDebugConfigurationFromCache
\* and of the builders in the order of the source, an outstanding probe
\* counted just before the statement that awaits it.
Progress ==
    LET at(s) == CASE s = "idle" -> 0
                   [] s = "ClassifyLinker" -> 1
                   [] s = "ResolveOverride" -> 2
                   [] s = "ResolveCompiler" -> 3
                   [] s = "LookForLLDBMI" -> 4
                   [] s = "After1a" -> 5
                   [] s = "After1b" -> 6
                   [] s = "LookForGDB" -> 7
                   [] s = "After2" -> 8
                   [] s = "LookForLLDB" -> 9
                   [] s = "After3" -> 10
                   [] s = "GenericFallback" -> 11
                   [] s \in {"createGDB", "createLLDB"} -> 12
                   [] s = "createGDB.bare" -> 13
                   [] s = "done" -> 14
    IN  IF pc = "checkDebugger" THEN 2 * at(site) - 1 ELSE 2 * at(pc)

\* A call that has begun can take its next step: the statement it is at
\* can run, an awaited probe can be answered.  The two statements that ask
\* the environment first (the extension lookup of step 1, fs.exists of the
\* generic fallback) can run as soon as the environment has an answer.
CanStep ==
    \/ pc = "LookForLLDBMI" /\ ExtensionAnswers # {}
    \/ /\ pc = "GenericFallback"
       /\ ExistsAnswers(GenericFallbackDerived(compiler_path, debugger_name)) # {}
    \/ ENABLED (\/ ClassifyLinker \/ ResolveOverride \/ ResolveCompiler
                \/ After1a \/ After1b \/ LookForGDB \/ After2
                \/ LookForLLDB \/ After3 \/ checkDebugger
                \/ CreateGDBChecked \/ CreateGDBBareChecked
                \/ CreateLLDBChecked)

\* C18: termination.  A call that has begun is never stuck while every
\* probe and file system check is answered, and every step takes it
\* further through a finite list of statements, so it ends; it ends in one
\* outcome (a configuration, null, or an error), which stays the outcome of
\* that call; and at no moment has a call issued more than six probes.
C18_Termination ==
    /\ [](InCall => CanStep)
    /\ [][InCall => Progress' > Progress]_vars
    /\ [](Len(probes) + Cardinality(inflight) <= 6)
    /\ [](Done <=> result.kind \in {"config", "null", "error"})
    /\ [](~Done => result = Running)
    /\ [][(Done /\ Done') => result' = result]_vars

\* C18 witness: a call that ends after six probes: 1a, 1b, 2 and 3 fail for
\* /b/clang++, the generic fallback's /b/gdb fails in the GDB builder, and
\* so does the bare gdb.
C18_Witness ==
    /\ Done
    /\ Len(probes) = 6
    /\ probes[6].site = "createGDB.bare"
    /\ result.kind = "error"


\* C19: a call that returns the MSVC configuration, and a call that raises
\* the 'no compiler found in cache' error, issues no probe at all.  The
\* linker check, the compiler lookup and the cl.exe check come before the
\* first candidate probe: up to the compiler lookup no probe was issued, and
\* a valid debuggerPathOverride, the one thing probed earlier, ends the call
\* in the builder without looking the compiler up.
C19_NoProbeForMsvcOrNoCompiler ==
    /\ (/\ Done
        /\ \/ IsMsvcResult(result)
           \/ (result.kind = "error" /\ result.error = "no.compiler.found.in.cache")) =>
          /\ probes = <<>>
          /\ inflight = {}
          /\ ~OverrideAccepted
    /\ pc \in {"ClassifyLinker", "ResolveOverride", "ResolveCompiler"} =>
          (probes = <<>> /\ inflight = {})
    /\ OverrideAccepted =>
          /\ compiler_path = NULL
          /\ pc \in {"checkDebugger", "createGDB", "createGDB.bare",
                     "createLLDB", "done"}

\* C19 witness: an absolute override that does not exist on disk is passed
\* over, the compiler is cl.exe, and the MSVC configuration is returned
\* with no probe issued.
C19_Witness ==
    /\ Done
    /\ ~LinkerIsMsvc
    /\ debuggerPathOverride = "/o/dbg"
    /\ fsChecks = <<[path |-> "/o/dbg", exists |-> FALSE, at |-> "override"]>>
    /\ compiler_path = "C:/m/cl.exe"
    /\ IsMsvcResult(result)
    /\ probes = <<>>

====
